---- MODULE Spec2Model ----
(***************************************************************************)
(* Axis ticket engine (src/app.py): advisory client, create_ticket, the    *)
(* lifecycle buttons of display_ticket_card, the per-user ticket store and *)
(* audit log.                                                              *)
(*                                                                         *)
(* Encoding.  A Python dict is a function from key strings to values; a    *)
(* missing key is a key outside DOMAIN.  Scores are integers: a            *)
(* priority_score in tenths (8.5 is 85), a completeness_score in           *)
(* hundredths (0.65 is 65).  A JSON value that may be a number or an       *)
(* object is a record [kind, val].  A text returned by the advisory        *)
(* service is a sequence of tokens: "{", "}", "txt" (prose), or the name   *)
(* of a well-formed member list.  A timestamp is the reading of the clock  *)
(* `now`, which advances between two user interactions.                    *)
(***************************************************************************)
EXTENDS Integers, Sequences, FiniteSets, TLC

VARIABLES
    logged_in,       \* st.session_state.logged_in
    username,        \* st.session_state.username ("None" when logged out)
    has_tickets,     \* "tickets" in st.session_state
    tickets,         \* st.session_state.tickets
    store,           \* user_data/tickets_<user>.json, per user
    audit_log,       \* user_data/audit_log_<user>.json, per user
    now,             \* the wall clock read by datetime.now(timezone.utc)
    created,         \* number of create_ticket calls so far (history)
    ai_calls,        \* number of call_ai invocations so far (history)
    met,             \* what the advisory requests of the last handler met (history)
    raised,          \* TRUE when the last handler let an exception escape
    message,         \* the st.error / st.success / st.warning of the last handler
    env,             \* the process environment read at import (lines 37-50)
    settings,        \* the settings keys saved in st.session_state
    levels           \* one level per factor of PRIORITY_WEIGHTS (input of the score)

vars == <<logged_in, username, has_tickets, tickets, store, audit_log, now,
          created, ai_calls, met, raised, message, env, settings, levels>>

-----------------------------------------------------------------------------
(* Bounds of the model *)

MaxTickets == 2
MaxClock == 4
MaxRows == 2

-----------------------------------------------------------------------------
(* Python dict helpers *)

EmptyDict == [k \in {} |-> TRUE]

Get(d, k, default) == IF k \in DOMAIN d THEN d[k] ELSE default

\* d[k] = v
Put(d, k, v) == (k :> v) @@ d

\* {**a, **b}: the keys of b override those of a
Merge(a, b) == b @@ a

Number(n) == [kind |-> "number", val |-> n]
Object == [kind |-> "object", val |-> 0]

-----------------------------------------------------------------------------
(* Configuration *)

USERS ==
    [tech1     |-> [password |-> "tech123",  role |-> "Technician",
                    permissions |-> {"create", "view", "start", "complete", "comment"}],
     tech2     |-> [password |-> "tech123",  role |-> "Technician",
                    permissions |-> {"create", "view", "start", "complete", "comment"}],
     engineer1 |-> [password |-> "eng123",   role |-> "Engineer",
                    permissions |-> {"create", "view", "approve", "edit", "prioritize",
                                     "assign", "comment"}],
     admin     |-> [password |-> "admin123", role |-> "Admin",
                    permissions |-> {"all"}]]

\* the weights of PRIORITY_WEIGHTS, were the rack and row weights exchanged
WeightsRackOverRow ==
    [impact_scope   |-> [single_server |-> 1, rack |-> 5, row |-> 3, datacenter |-> 10],
     service_impact |-> [none |-> 0, degraded |-> 2, partial_outage |-> 5, full_outage |-> 10],
     urgency        |-> [scheduled |-> 1, next_maintenance |-> 2, within_24h |-> 5,
                         immediate |-> 10],
     safety         |-> [none |-> 0, minor |-> 3, moderate |-> 7, critical |-> 10]]

PRIORITY_WEIGHTS ==
    [impact_scope   |-> [single_server |-> 1, rack |-> 3, row |-> 5, datacenter |-> 10],
     service_impact |-> [none |-> 0, degraded |-> 2, partial_outage |-> 5, full_outage |-> 10],
     urgency        |-> [scheduled |-> 1, next_maintenance |-> 2, within_24h |-> 5,
                         immediate |-> 10],
     safety         |-> [none |-> 0, minor |-> 3, moderate |-> 7, critical |-> 10]]

\* the levels of each factor, from the lowest to the highest, in the order
\* the table lists them
LevelsOf ==
    [impact_scope   |-> <<"single_server", "rack", "row", "datacenter">>,
     service_impact |-> <<"none", "degraded", "partial_outage", "full_outage">>,
     urgency        |-> <<"scheduled", "next_maintenance", "within_24h", "immediate">>,
     safety         |-> <<"none", "minor", "moderate", "critical">>]

Factors == DOMAIN LevelsOf

\* the weight of each factor at its chosen level
WeightOf(lv, factor) == PRIORITY_WEIGHTS[factor][lv[factor]]

\* The combined score.  The source has the table and no function over it; the
\* design names the sum and the maximum of the four weights as combinations.
SumScore(lv) ==
    WeightOf(lv, "impact_scope") + WeightOf(lv, "service_impact")
        + WeightOf(lv, "urgency") + WeightOf(lv, "safety")

MaxScore(lv) ==
    CHOOSE w \in {WeightOf(lv, f) : f \in Factors} :
        \A f \in Factors : WeightOf(lv, f) <= w

\* str.strip() on the values an environment variable takes in the model
Strip(s) == IF s = " " THEN "" ELSE s

\* st.session_state.get(key, default).strip(): a saved setting goes before
\* the value of the environment
Setting(key, default) == Strip(Get(settings, key, default))

\* api_key, use_mock of get_openrouter_config (the model name plays no part)
get_openrouter_config ==
    LET api_key == Setting("openrouter_api_key", env.OPENROUTER_KEY)
    IN  [api_key |-> api_key, use_mock |-> (api_key = "")]

\* jira_base, jira_email, jira_token, is_configured of get_jira_config
get_jira_config ==
    LET jira_base  == Setting("jira_base_url", env.JIRA_BASE_URL)
        jira_email == Setting("jira_email", env.JIRA_EMAIL)
        jira_token == Setting("jira_api_token", env.JIRA_API_TOKEN)
    IN  [jira_base |-> jira_base, jira_email |-> jira_email, jira_token |-> jira_token,
         is_configured |-> (jira_base # "" /\ jira_email # "" /\ jira_token # "")]

\* EMAIL_ADDRESS, EMAIL_PASSWORD: os.getenv(..., "") with the variable unset
EMAIL_ADDRESS == ""
EMAIL_PASSWORD == ""

\* email_addr, email_pass, is_configured of get_email_config
get_email_config ==
    LET email_addr == Setting("email_address", EMAIL_ADDRESS)
        email_pass == Setting("email_password", EMAIL_PASSWORD)
    IN  [email_addr |-> email_addr, email_pass |-> email_pass,
         is_configured |-> (email_addr # "" /\ email_pass # "")]

-----------------------------------------------------------------------------
(* Prompt texts and the keyword sniffing of the mock *)

\* str.lower() on the texts of the model
Lower(s) ==
    CASE s = "Job Completed late" -> "job completed late"
      [] s = "Calculate Priority Score" -> "calculate priority score"
      [] s = "Validate and enhance this ticket:" -> "validate and enhance this ticket:"
      [] s = "Analyze this ticket and calculate objective priority:"
            -> "analyze this ticket and calculate objective priority:"
      [] s = "Calculate the actual priority score based on objective factors."
            -> "calculate the actual priority score based on objective factors."
      [] s = "Provide specific suggestions for improvement."
            -> "provide specific suggestions for improvement."
      [] s = "Low" -> "low"
      [] s = "Medium" -> "medium"
      [] s = "High" -> "high"
      [] s = "Critical" -> "critical"
      [] OTHER -> s

\* the keywords of call_ai that occur as substrings of a lower-case text
KeywordsIn(s) ==
    CASE s = "job completed late" -> {"complete"}
      [] s = "calculate priority score" -> {"calculate priority score"}
      [] s = "validate and enhance this ticket:" -> {"validate"}
      [] OTHER -> {}

\* kw in user_prompt.lower(), the prompt being the sequence of its parts
InLower(kw, prompt) == \E i \in 1..Len(prompt) : kw \in KeywordsIn(Lower(prompt[i]))

-----------------------------------------------------------------------------
(* Advisory client: call_ai *)

MockPriority ==
    [calculated_priority |-> "High", priority_score |-> Number(85),
     reasoning |-> "Multiple servers affected",
     factors |-> "rack/partial_outage/within_24h/moderate",
     recommended_actions |-> <<"assess rack", "check power", "verify network", "schedule">>]

MockValidation ==
    [is_complete |-> FALSE, completeness_score |-> Number(65),
     missing_fields |-> <<"root_cause_analysis", "estimated_time", "required_parts">>,
     suggestions |-> "summary/description/priority",
     auto_enhanced |-> "GPU Server Cluster Offline"]

MockGeneric ==
    [summary |-> "Server hardware issue requiring attention", priority |-> "Medium",
     description |-> "Issue detected", steps |-> <<"verify", "check", "review", "test", "document">>,
     confidence |-> Number(75)]

\* member lists a remote model may answer with, besides the three above
RemoteLow ==
    [calculated_priority |-> "Low", priority_score |-> Number(20),
     reasoning |-> "Single server, scheduled"]

RemoteNested ==
    [calculated_priority |-> "Medium", priority_score |-> Object,
     reasoning |-> "Score given per factor"]

RemoteValidation ==
    [is_complete |-> TRUE, completeness_score |-> Number(90)]

\* the dict a member-list token stands for
Members(tok) ==
    CASE tok = "MockPriority" -> MockPriority
      [] tok = "MockValidation" -> MockValidation
      [] tok = "MockGeneric" -> MockGeneric
      [] tok = "RemoteLow" -> RemoteLow
      [] tok = "RemoteNested" -> RemoteNested
      [] tok = "RemoteValidation" -> RemoteValidation

MemberTokens == {"MockPriority", "MockValidation", "MockGeneric",
                 "RemoteLow", "RemoteNested", "RemoteValidation"}

\* json.dumps of a dict of the model
Dumps(tok) == <<"{", tok, "}">>

\* What the HTTP request of call_ai can do: raise (connection error, timeout),
\* answer with a non-200 status (raise_for_status raises), or answer 200 with a
\* message content.
NetworkError == [kind |-> "network_error", content |-> <<>>]
HttpError == [kind |-> "http_error", content |-> <<>>]
Ok(text) == [kind |-> "ok", content |-> text]

BadBody == [kind |-> "bad_body", content |-> <<>>]
OkNumber == [kind |-> "ok_number", content |-> <<>>]

\* A value returned by call_ai: a str (is_str, with its text) or, when the
\* message content of the answer is a JSON number, that number.
Str(text) == [is_str |-> TRUE, text |-> text]
NotStr == [is_str |-> FALSE, text |-> <<>>]

\* call_ai(system_prompt, user_prompt): the value returned.  `reply` is the
\* outcome of the request, made only when an API key is configured.  Every
\* exception of the request is caught (lines 1016-1028) and gives "{}".
call_ai(user_prompt, reply) ==
    IF get_openrouter_config.use_mock
    THEN IF InLower("calculate priority score", user_prompt)
         THEN Str(Dumps("MockPriority"))
         ELSE IF InLower("validate", user_prompt) \/ InLower("complete", user_prompt)
              THEN Str(Dumps("MockValidation"))
              ELSE Str(Dumps("MockGeneric"))
    ELSE CASE reply.kind = "ok" ->
                \* content or "{}"
                IF reply.content # <<>> THEN Str(reply.content) ELSE Str(<<"{", "}">>)
           [] reply.kind = "ok_number" -> NotStr
           [] OTHER -> Str(<<"{", "}">>)

-----------------------------------------------------------------------------
(* Extraction of the JSON object from the returned text *)

\* str.find / str.rfind: 0-based index of the first / last occurrence, or -1
Find(text, ch) ==
    IF \E i \in 1..Len(text) : text[i] = ch
    THEN (CHOOSE i \in 1..Len(text) : text[i] = ch /\ \A j \in 1..(i-1) : text[j] # ch) - 1
    ELSE -1

RFind(text, ch) ==
    IF \E i \in 1..Len(text) : text[i] = ch
    THEN (CHOOSE i \in 1..Len(text) : text[i] = ch /\ \A j \in (i+1)..Len(text) : text[j] # ch) - 1
    ELSE -1

\* text[a:b] for 0 <= a and 0 <= b
Slice(text, a, b) == IF b <= a THEN <<>> ELSE SubSeq(text, a + 1, b)

\* json.loads: the parsed dict, or an exception
json_loads(text) ==
    IF text = <<"{", "}">>
    THEN [ok |-> TRUE, value |-> EmptyDict]
    ELSE IF Len(text) = 3 /\ text[1] = "{" /\ text[3] = "}" /\ text[2] \in MemberTokens
         THEN [ok |-> TRUE, value |-> Members(text[2])]
         ELSE [ok |-> FALSE, value |-> EmptyDict]

\* The try block shared by calculate_priority_score and
\* validate_and_enhance_ticket: [returned |-> TRUE, value] when the block
\* returns the parsed dict, [returned |-> FALSE] when it falls through
\* (no "{", or an exception: `"{" in response` on a non-str, json.loads).
ExtractJson(response) ==
    IF ~response.is_str
    THEN [returned |-> FALSE, value |-> EmptyDict]
    ELSE IF Find(response.text, "{") = -1
         THEN [returned |-> FALSE, value |-> EmptyDict]
         ELSE LET json_str == Slice(response.text, Find(response.text, "{"),
                                    RFind(response.text, "}") + 1)
                  parsed == json_loads(json_str)
              IN  IF parsed.ok
                  THEN [returned |-> TRUE, value |-> parsed.value]
                  ELSE [returned |-> FALSE, value |-> EmptyDict]

-----------------------------------------------------------------------------
(* The two judgements *)

DefaultPriority(ticket) ==
    [calculated_priority |-> Get(ticket, "user_priority", "Medium"),
     priority_score |-> Number(50),
     reasoning |-> "Unable to calculate detailed score",
     factors |-> EmptyDict,
     recommended_actions |-> <<>>]

DefaultValidation ==
    [is_complete |-> TRUE, completeness_score |-> Number(70),
     missing_fields |-> <<>>, suggestions |-> EmptyDict, auto_enhanced |-> EmptyDict]

PriorityPrompt(ticket) ==
    <<"Analyze this ticket and calculate objective priority:",
      Get(ticket, "summary", ""), Get(ticket, "description", ""),
      Get(ticket, "user_priority", "Not specified"),
      Get(ticket, "rack", ""), Get(ticket, "server", ""),
      "Calculate the actual priority score based on objective factors.">>

ValidationPrompt(ticket) ==
    <<"Validate and enhance this ticket:",
      Get(ticket, "summary", ""), Get(ticket, "description", ""),
      Get(ticket, "server", ""), Get(ticket, "rack", ""),
      Get(ticket, "priority", ""),
      "Provide specific suggestions for improvement.">>

calculate_priority_score(ticket, reply) ==
    LET response == call_ai(PriorityPrompt(ticket), reply)
        got == ExtractJson(response)
    IN  IF got.returned THEN got.value ELSE DefaultPriority(ticket)

validate_and_enhance_ticket(ticket, reply) ==
    LET response == call_ai(ValidationPrompt(ticket), reply)
        got == ExtractJson(response)
    IN  IF got.returned THEN got.value ELSE DefaultValidation

-----------------------------------------------------------------------------
(* create_ticket *)

\* create_ticket's last step, were it to mark every ticket whose judgement
\* names a priority, without comparing it to the user's
MarkWhenJudged(ticket) ==
    IF "calculated_priority" \in DOMAIN ticket["priority_analysis"]
    THEN Put(Put(ticket, "status", "AI Review"), "needs_priority_review", TRUE)
    ELSE ticket

\* create_ticket's last step, were it to set the flag and leave the status
MarkKeepingDraft(ticket) ==
    IF ticket["calculated_priority"] # ticket["user_priority"]
    THEN Put(ticket, "needs_priority_review", TRUE)
    ELSE ticket

\* lines 1210-1213: a calculated priority other than the user's marks the ticket
MarkForReview(ticket) ==
    IF ticket["calculated_priority"] # ticket["user_priority"]
    THEN Put(Put(ticket, "status", "AI Review"), "needs_priority_review", TRUE)
    ELSE ticket

\* lines 1204-1208: the priority judgement and the two values read from it
StorePriority(ticket, priority_analysis) ==
    Put(Put(Put(ticket, "priority_analysis", priority_analysis),
            "calculated_priority",
            Get(priority_analysis, "calculated_priority", ticket["user_priority"])),
        "priority_score", Get(priority_analysis, "priority_score", Number(50)))

\* create_ticket, were it to ask for the priority judgement first: the first
\* request of the call is then the priority request
PriorityJudgedFirst(user, ticket_data, uuid, ts, vreply, preply) ==
    LET ticket == Merge([id |-> uuid, created_at |-> ts, created_by |-> user,
                         status |-> "Draft",
                         user_priority |-> Get(ticket_data, "priority", "Medium")],
                        ticket_data)
        scored == StorePriority(ticket, calculate_priority_score(ticket, vreply))
    IN  MarkForReview(Put(scored, "validation", validate_and_enhance_ticket(scored, preply)))

\* uuid is str(uuid.uuid4())[:8], ts the clock reading, vreply and preply what
\* the two advisory requests meet.
create_ticket(user, ticket_data, uuid, ts, vreply, preply) ==
    LET ticket == Merge([id |-> uuid, created_at |-> ts, created_by |-> user,
                         status |-> "Draft",
                         user_priority |-> Get(ticket_data, "priority", "Medium")],
                        ticket_data)
        validated == Put(ticket, "validation", validate_and_enhance_ticket(ticket, vreply))
    IN  MarkForReview(StorePriority(validated, calculate_priority_score(validated, preply)))

-----------------------------------------------------------------------------
(* Store *)

\* load_user_tickets / save_user_tickets: the JSON document of a user
load_user_tickets(user) == store[user]

save_user_tickets(st, user, tks) == [st EXCEPT ![user] = tks]

\* append_audit_log, were the existing text left out of what is written back
AuditLogRewritten(log, user, ts, action, details) ==
    [log EXCEPT ![user] = <<[timestamp |-> ts, action |-> action, details |-> details]>>]

\* append_audit_log: one line "[timestamp] action | details" at the end of the
\* user's log; action is the sequence of the parts of the f-string
append_audit_log(log, user, ts, action, details) ==
    [log EXCEPT ![user] = Append(@, [timestamp |-> ts, action |-> action,
                                     details |-> details])]

-----------------------------------------------------------------------------
(* Jira sync *)

\* The in-session collection, the store and the audit logs, as one handler
\* passes them from one call to the next.
World(tks, st, log) == [tickets |-> tks, store |-> st, audit_log |-> log, ok |-> TRUE]

\* sync_ticket_to_jira, were it to stamp and save the ticket before it looks
\* at what create_jira_issue returned
SyncStampingFirst(w, i, user, ts, jira_key) ==
    LET stamped == Put(w.tickets[i], "jira_synced_at", ts)
        tks == [w.tickets EXCEPT ![i] = stamped]
    IN  IF get_jira_config.is_configured /\ jira_key # ""
        THEN [tickets |-> [tks EXCEPT ![i] = Put(@, "jira_key", jira_key)],
              store |-> save_user_tickets(w.store, user,
                                          [tks EXCEPT ![i] = Put(@, "jira_key", jira_key)]),
              audit_log |-> append_audit_log(w.audit_log, user, ts,
                               <<"Synced ticket", stamped["id"], "to Jira as", jira_key>>, ""),
              ok |-> TRUE]
        ELSE [tickets |-> tks, store |-> save_user_tickets(w.store, user, tks),
              audit_log |-> w.audit_log, ok |-> FALSE]

\* sync_ticket_to_jira, were a successful sync to approve the ticket as well
SyncApproving(w, i, user, ts, jira_key) ==
    IF get_jira_config.is_configured /\ jira_key # ""
    THEN LET synced == Put(Put(Put(w.tickets[i], "jira_key", jira_key),
                               "jira_synced_at", ts), "status", "Approved")
             tks == [w.tickets EXCEPT ![i] = synced]
         IN  [tickets |-> tks,
              store |-> save_user_tickets(w.store, user, tks),
              audit_log |-> append_audit_log(w.audit_log, user, ts,
                               <<"Synced ticket", synced["id"], "to Jira as", jira_key>>, ""),
              ok |-> TRUE]
    ELSE [w EXCEPT !.ok = FALSE]

\* sync_ticket_to_jira(ticket, username) on the ticket at position i of the
\* in-session collection.  jira_key is what create_jira_issue returns: the
\* issue key, or "" for None (request error, response without a key).
sync_ticket_to_jira(w, i, user, ts, jira_key) ==
    IF ~get_jira_config.is_configured
    THEN [w EXCEPT !.ok = FALSE]
    ELSE IF jira_key # ""
         THEN LET synced == Put(Put(w.tickets[i], "jira_key", jira_key), "jira_synced_at", ts)
                  tks == [w.tickets EXCEPT ![i] = synced]
              IN  [tickets |-> tks,
                   store |-> save_user_tickets(w.store, user, tks),
                   audit_log |-> append_audit_log(w.audit_log, user, ts,
                                    <<"Synced ticket", synced["id"], "to Jira as", jira_key>>, ""),
                   ok |-> TRUE]
         ELSE [w EXCEPT !.ok = FALSE]

-----------------------------------------------------------------------------
(* Inputs *)

\* values of str(uuid.uuid4())[:8]: random, so two calls may return the same
Ids == {"1a2b3c4d", "5e6f7a8b"}

\* issue keys Jira answers with; "" is create_jira_issue returning None
JiraResults == {"", "AXIS-7"}

Priorities == {"Low", "Medium", "High", "Critical"}

Form(summary, description, server, rack, user_priority) ==
    [summary |-> summary, description |-> description, server |-> server,
     rack |-> rack, user_priority |-> user_priority]

\* what the user may have typed in the create form
AllForms ==
    {Form(s, d, sv, r, p) :
        s \in {"", "disk fault", "Job Completed late", "Calculate Priority Score"},
        d \in {"", "fan noise"}, sv \in {"", "srv-gpu-301"}, r \in {"", "3B-04"},
        p \in Priorities}

SessionForms ==
    {Form("disk fault", "fan noise", "srv-gpu-301", "3B-04", "Low")}

\* message contents a remote model may answer with
Contents ==
    {<<>>,                                   \* empty content
     <<"txt">>,                              \* prose, no JSON object
     <<"{", "txt">>,                         \* "{" but no "}"
     <<"}", "txt", "{">>,                    \* the last "}" before the first "{"
     <<"{", "txt", "}">>,                    \* braces around something unparsable
     <<"{", "}">>,                           \* the empty object
     <<"txt", "{", "RemoteLow", "}", "txt">>,       \* an object inside prose
     <<"{", "RemoteNested", "}">>,
     <<"{", "RemoteValidation", "}">>,
     <<"{", "MockPriority", "}">>}

AllReplies == {NetworkError, HttpError, BadBody, OkNumber} \cup {Ok(c) : c \in Contents}

\* <<what the validation request meets, what the priority request meets>>
AllReplyPairs == AllReplies \X AllReplies

\* no request is made without an API key: nothing to draw then
Drawn(reply_pairs) ==
    IF get_openrouter_config.use_mock THEN {<<NetworkError, NetworkError>>} ELSE reply_pairs

\* the requests made by the create_ticket calls of one handler, in order:
\* pairs[k] is what the two requests of the k-th call met
RECURSIVE Flatten(_)
Flatten(pairs) ==
    IF pairs = <<>> THEN <<>> ELSE <<pairs[1][1], pairs[1][2]>> \o Flatten(Tail(pairs))

Requests(pairs) == IF get_openrouter_config.use_mock THEN <<>> ELSE Flatten(pairs)

SessionReplyPairs ==
    {<<NetworkError, NetworkError>>,
     <<Ok(<<"{", "RemoteValidation", "}">>), Ok(<<"{", "RemoteNested", "}">>)>>}

\* the process environments of the model
Env(key, base, email, token) ==
    [OPENROUTER_KEY |-> key, JIRA_BASE_URL |-> base, JIRA_EMAIL |-> email,
     JIRA_API_TOKEN |-> token]

Envs ==
    {Env("", "", "", ""),
     Env("sk-or-v1", "", "", ""),
     Env("", "https://axis.atlassian.net", "ops@axis.io", "tok"),
     Env("sk-or-v1", "https://axis.atlassian.net", "ops@axis.io", "tok")}

AllEnvs == Envs \cup {Env(" ", "https://axis.atlassian.net", " ", "tok")}

LoginNames == {"tech1", "engineer1", "guest"}
Passwords == {USERS[u].password : u \in DOMAIN USERS}

-----------------------------------------------------------------------------
(* Initial state: nobody logged in, user_data/ empty *)

InitIn(envs) ==
    /\ logged_in = FALSE
    /\ username = "None"
    /\ has_tickets = FALSE
    /\ tickets = <<>>
    /\ store = [u \in DOMAIN USERS |-> <<>>]
    /\ audit_log = [u \in DOMAIN USERS |-> <<>>]
    /\ now = 0
    /\ created = 0
    /\ ai_calls = 0
    /\ met = <<>>
    /\ raised = FALSE
    /\ message = ""
    /\ env \in envs
    /\ settings = EmptyDict
    /\ levels = [f \in Factors |-> LevelsOf[f][1]]

Init == InitIn(Envs)

-----------------------------------------------------------------------------
(* login_page, then the first run of main *)

Login ==
    \E name \in LoginNames, password \in Passwords :
        /\ ~logged_in
        /\ IF name \in DOMAIN USERS /\ USERS[name].password = password
           THEN /\ logged_in' = TRUE
                /\ username' = name
                /\ has_tickets' = TRUE
                /\ tickets' = IF has_tickets THEN tickets ELSE load_user_tickets(name)
                /\ message' = ""
           ELSE /\ message' = "Invalid credentials"
                /\ UNCHANGED <<logged_in, username, has_tickets, tickets>>
        /\ met' = <<>>
        /\ raised' = FALSE
        /\ UNCHANGED <<store, audit_log, now, created, ai_calls, env, settings, levels>>

-----------------------------------------------------------------------------
(* Create Ticket tab *)

\* the dict object of a ticket: its creation number (history, not a key the
\* program writes)
WithObj(ticket, n) == Put(ticket, "obj", n)

CreateTicketTab(forms, reply_pairs) ==
    \E form \in forms, button \in {"create", "create_sync"} :
        /\ logged_in
        /\ button = "create_sync" => get_jira_config.is_configured
        /\ IF form.summary = "" \/ form.description = "" \/ form.server = "" \/ form.rack = ""
           THEN /\ message' = "Please fill in all required fields"
                /\ met' = <<>>
                /\ UNCHANGED <<tickets, store, audit_log, now, created, ai_calls>>
           ELSE /\ created < MaxTickets
                /\ now < MaxClock
                /\ \E uuid \in Ids, replies \in Drawn(reply_pairs),
                      jira_key \in (IF button = "create_sync" THEN JiraResults ELSE {""}) :
                    LET ts == now + 1
                        ticket_data == [summary |-> form.summary,
                                        description |-> form.description,
                                        server |-> form.server, rack |-> form.rack,
                                        priority |-> form.user_priority]
                        new_ticket == WithObj(create_ticket(username, ticket_data, uuid, ts,
                                                            replies[1], replies[2]),
                                              created + 1)
                        tks == <<new_ticket>> \o tickets
                        w1 == World(tks, save_user_tickets(store, username, tks),
                                    append_audit_log(audit_log, username, ts,
                                        <<"Created ticket", new_ticket["id"]>>,
                                        new_ticket["summary"]))
                        w2 == IF button = "create_sync"
                              THEN sync_ticket_to_jira(w1, 1, username, ts, jira_key)
                              ELSE w1
                    IN  /\ tickets' = w2.tickets
                        /\ store' = w2.store
                        /\ audit_log' = w2.audit_log
                        /\ now' = ts
                        /\ created' = created + 1
                        /\ ai_calls' = ai_calls + 2
                        /\ met' = Requests(<<replies>>)
                        /\ message' = "Ticket created successfully"
        /\ raised' = FALSE
        /\ UNCHANGED <<logged_in, username, has_tickets, env, settings, levels>>

CreateTicket == CreateTicketTab(SessionForms, SessionReplyPairs)

-----------------------------------------------------------------------------
(* Import CSV tab *)

\* rows of the uploaded file, as pandas hands them over: a column the file
\* lacks is a key the row lacks
CsvRows ==
    {[server |-> "srv-gpu-301", rack |-> "3B-04", issue |-> "disk fault",
      description |-> "fan noise", priority |-> "High"],
     [server |-> "srv-gpu-301", rack |-> "3B-04", summary |-> "disk fault"],
     [issue |-> "Job Completed late", description |-> "fan noise"]}

\* one row with what its create_ticket and its sync meet
RowInputs(rows, reply_pairs, jira_keys) ==
    [row : rows, uuid : Ids, replies : reply_pairs, jira_key : jira_keys]

\* the sequences of 1 to n elements of S
UpTo(S, n) == UNION {[1..m -> S] : m \in 1..n}

\* the body of `for idx, row in df.iterrows()` on rows k..Len(inputs); n is
\* the number of create_ticket calls made before the loop
RECURSIVE ImportLoop(_, _, _, _, _, _, _)
ImportLoop(w, user, ts, sync, inputs, k, n) ==
    IF k > Len(inputs)
    THEN w
    ELSE LET row == inputs[k].row
             ticket_data ==
                 [server |-> Get(row, "server", "unknown"),
                  rack |-> Get(row, "rack", "unknown"),
                  summary |-> Get(row, "issue", Get(row, "summary", "Imported ticket")),
                  description |-> Get(row, "description", ""),
                  priority |-> Get(row, "priority", "Medium")]
             new_ticket == WithObj(create_ticket(user, ticket_data, inputs[k].uuid, ts,
                                                 inputs[k].replies[1], inputs[k].replies[2]),
                                   n + k)
             w1 == [w EXCEPT !.tickets = <<new_ticket>> \o @]
             w2 == IF sync
                   THEN [sync_ticket_to_jira(w1, 1, user, ts, inputs[k].jira_key)
                            EXCEPT !.ok = TRUE]
                   ELSE w1
         IN  ImportLoop(w2, user, ts, sync, inputs, k + 1, n)

ImportCsvTab(rows, reply_pairs) ==
    \E button \in {"process", "process_sync"} :
        /\ logged_in
        /\ button = "process_sync" => get_jira_config.is_configured
        /\ now < MaxClock
        /\ \E inputs \in UpTo(RowInputs(rows, Drawn(reply_pairs),
                                         IF button = "process_sync" THEN JiraResults ELSE {""}),
                               MaxRows) :
            /\ created + Len(inputs) <= MaxTickets
            /\ LET ts == now + 1
                   w == ImportLoop(World(tickets, store, audit_log), username, ts,
                                   button = "process_sync", inputs, 1, created)
               IN  /\ tickets' = w.tickets
                   /\ store' = save_user_tickets(w.store, username, w.tickets)
                   /\ audit_log' = append_audit_log(w.audit_log, username, ts,
                                        <<"Bulk imported", Len(inputs), "tickets from CSV">>, "")
                   /\ now' = ts
                   /\ created' = created + Len(inputs)
                   /\ ai_calls' = ai_calls + 2 * Len(inputs)
                   /\ met' = Requests([k \in 1..Len(inputs) |-> inputs[k].replies])
                   /\ message' = "Successfully imported tickets"
        /\ raised' = FALSE
        /\ UNCHANGED <<logged_in, username, has_tickets, env, settings, levels>>


-----------------------------------------------------------------------------
(* The buttons of display_ticket_card *)

\* the end of a card button's handler, were it to skip save_user_tickets
SavedInSessionOnly(tks) ==
    /\ tickets' = tks
    /\ store' = store

Saved(tks) ==
    /\ tickets' = tks
    /\ store' = save_user_tickets(store, username, tks)

\* Approve, were it to leave needs_priority_review as it found it
ApproveKeepingFlag ==
    \E i \in 1..Len(tickets) :
        /\ logged_in
        /\ tickets[i]["status"] \in {"Draft", "AI Review"}
        /\ now < MaxClock
        /\ Saved([tickets EXCEPT ![i] = Put(@, "status", "Approved")])
        /\ now' = now + 1
        /\ audit_log' = append_audit_log(audit_log, username, now + 1,
                                         <<"Approved ticket", tickets[i]["id"]>>, "")
        /\ message' = ""
        /\ met' = <<>>
        /\ raised' = FALSE
        /\ UNCHANGED <<logged_in, username, has_tickets, created, ai_calls, env, settings, levels>>

Approve ==
    \E i \in 1..Len(tickets) :
        /\ logged_in
        /\ tickets[i]["status"] \in {"Draft", "AI Review"}
        /\ now < MaxClock
        /\ Saved([tickets EXCEPT ![i] = Put(Put(@, "status", "Approved"),
                                              "needs_priority_review", FALSE)])
        /\ now' = now + 1
        /\ audit_log' = append_audit_log(audit_log, username, now + 1,
                                         <<"Approved ticket", tickets[i]["id"]>>, "")
        /\ message' = ""
        /\ met' = <<>>
        /\ raised' = FALSE
        /\ UNCHANGED <<logged_in, username, has_tickets, created, ai_calls, env, settings, levels>>

\* Start, were it offered on Draft tickets too
StartFromDraft ==
    \E i \in 1..Len(tickets) :
        /\ logged_in
        /\ tickets[i]["status"] \in {"Draft", "Approved"}
        /\ now < MaxClock
        /\ Saved([tickets EXCEPT ![i] = Put(Put(@, "status", "In Progress"),
                                              "started_at", now + 1)])
        /\ now' = now + 1
        /\ audit_log' = append_audit_log(audit_log, username, now + 1,
                                         <<"Started work on ticket", tickets[i]["id"]>>, "")
        /\ message' = ""
        /\ met' = <<>>
        /\ raised' = FALSE
        /\ UNCHANGED <<logged_in, username, has_tickets, created, ai_calls, env, settings, levels>>

\* Start, were it offered on tickets in AI Review too
StartFromReview ==
    \E i \in 1..Len(tickets) :
        /\ logged_in
        /\ tickets[i]["status"] \in {"AI Review", "Approved"}
        /\ now < MaxClock
        /\ Saved([tickets EXCEPT ![i] = Put(Put(@, "status", "In Progress"),
                                              "started_at", now + 1)])
        /\ now' = now + 1
        /\ audit_log' = append_audit_log(audit_log, username, now + 1,
                                         <<"Started work on ticket", tickets[i]["id"]>>, "")
        /\ message' = ""
        /\ met' = <<>>
        /\ raised' = FALSE
        /\ UNCHANGED <<logged_in, username, has_tickets, created, ai_calls, env, settings, levels>>

\* Start, were it offered on tickets already In Progress
StartAgain ==
    \E i \in 1..Len(tickets) :
        /\ logged_in
        /\ tickets[i]["status"] \in {"Approved", "In Progress"}
        /\ now < MaxClock
        /\ Saved([tickets EXCEPT ![i] = Put(Put(@, "status", "In Progress"),
                                              "started_at", now + 1)])
        /\ now' = now + 1
        /\ audit_log' = append_audit_log(audit_log, username, now + 1,
                                         <<"Started work on ticket", tickets[i]["id"]>>, "")
        /\ message' = ""
        /\ met' = <<>>
        /\ raised' = FALSE
        /\ UNCHANGED <<logged_in, username, has_tickets, created, ai_calls, env, settings, levels>>

Start ==
    \E i \in 1..Len(tickets) :
        /\ logged_in
        /\ tickets[i]["status"] = "Approved"
        /\ now < MaxClock
        /\ Saved([tickets EXCEPT ![i] = Put(Put(@, "status", "In Progress"),
                                              "started_at", now + 1)])
        /\ now' = now + 1
        /\ audit_log' = append_audit_log(audit_log, username, now + 1,
                                         <<"Started work on ticket", tickets[i]["id"]>>, "")
        /\ message' = ""
        /\ met' = <<>>
        /\ raised' = FALSE
        /\ UNCHANGED <<logged_in, username, has_tickets, created, ai_calls, env, settings, levels>>

\* Complete, were it offered on Approved tickets too
CompleteFromApproved ==
    \E i \in 1..Len(tickets) :
        /\ logged_in
        /\ tickets[i]["status"] \in {"Approved", "In Progress"}
        /\ now < MaxClock
        /\ Saved([tickets EXCEPT ![i] = Put(Put(@, "status", "Completed"),
                                              "completed_at", now + 1)])
        /\ now' = now + 1
        /\ audit_log' = append_audit_log(audit_log, username, now + 1,
                                         <<"Completed ticket", tickets[i]["id"]>>, "")
        /\ message' = ""
        /\ met' = <<>>
        /\ raised' = FALSE
        /\ UNCHANGED <<logged_in, username, has_tickets, created, ai_calls, env, settings, levels>>

\* Complete, were it to write its time over started_at
CompleteOverStart ==
    \E i \in 1..Len(tickets) :
        /\ logged_in
        /\ tickets[i]["status"] = "In Progress"
        /\ now < MaxClock
        /\ Saved([tickets EXCEPT ![i] = Put(Put(@, "status", "Completed"),
                                              "started_at", now + 1)])
        /\ now' = now + 1
        /\ audit_log' = append_audit_log(audit_log, username, now + 1,
                                         <<"Completed ticket", tickets[i]["id"]>>, "")
        /\ message' = ""
        /\ met' = <<>>
        /\ raised' = FALSE
        /\ UNCHANGED <<logged_in, username, has_tickets, created, ai_calls, env, settings, levels>>

Complete ==
    \E i \in 1..Len(tickets) :
        /\ logged_in
        /\ tickets[i]["status"] = "In Progress"
        /\ now < MaxClock
        /\ Saved([tickets EXCEPT ![i] = Put(Put(@, "status", "Completed"),
                                              "completed_at", now + 1)])
        /\ now' = now + 1
        /\ audit_log' = append_audit_log(audit_log, username, now + 1,
                                         <<"Completed ticket", tickets[i]["id"]>>, "")
        /\ message' = ""
        /\ met' = <<>>
        /\ raised' = FALSE
        /\ UNCHANGED <<logged_in, username, has_tickets, created, ai_calls, env, settings, levels>>

\* [t for t in tickets if t["id"] != ticket_id]
Without(tks, ticket_id) == SelectSeq(tks, LAMBDA t : t["id"] # ticket_id)

Delete ==
    \E i \in 1..Len(tickets) :
        /\ logged_in
        /\ now < MaxClock
        /\ Saved(Without(tickets, tickets[i]["id"]))
        /\ now' = now + 1
        /\ audit_log' = append_audit_log(audit_log, username, now + 1,
                                         <<"Deleted ticket", tickets[i]["id"]>>, "")
        /\ message' = ""
        /\ met' = <<>>
        /\ raised' = FALSE
        /\ UNCHANGED <<logged_in, username, has_tickets, created, ai_calls, env, settings, levels>>

\* the Sync Jira button, were it rendered on tickets that have a jira_key too
SyncJiraAgain ==
    \E i \in 1..Len(tickets), jira_key \in JiraResults :
        /\ logged_in
        /\ get_jira_config.is_configured
        /\ LET w == sync_ticket_to_jira(World(tickets, store, audit_log), i, username,
                                        now + 1, jira_key)
           IN  IF w.ok
               THEN /\ now < MaxClock
                    /\ tickets' = w.tickets
                    /\ store' = w.store
                    /\ audit_log' = w.audit_log
                    /\ now' = now + 1
                    /\ message' = "Synced"
               ELSE /\ message' = "Jira API Error"
                    /\ UNCHANGED <<tickets, store, audit_log, now>>
        /\ met' = <<>>
        /\ raised' = FALSE
        /\ UNCHANGED <<logged_in, username, has_tickets, created, ai_calls, env, settings, levels>>

SyncJira ==
    \E i \in 1..Len(tickets), jira_key \in JiraResults :
        /\ logged_in
        /\ Get(tickets[i], "jira_key", "") = ""
        /\ get_jira_config.is_configured
        /\ LET w == sync_ticket_to_jira(World(tickets, store, audit_log), i, username,
                                        now + 1, jira_key)
           IN  IF w.ok
               THEN /\ now < MaxClock
                    /\ tickets' = w.tickets
                    /\ store' = w.store
                    /\ audit_log' = w.audit_log
                    /\ now' = now + 1
                    /\ message' = "Synced"
               ELSE /\ message' = "Jira API Error"
                    /\ UNCHANGED <<tickets, store, audit_log, now>>
        /\ met' = <<>>
        /\ raised' = FALSE
        /\ UNCHANGED <<logged_in, username, has_tickets, created, ai_calls, env, settings, levels>>

RefreshData ==
    /\ logged_in
    /\ tickets' = load_user_tickets(username)
    /\ message' = ""
    /\ met' = <<>>
    /\ raised' = FALSE
    /\ UNCHANGED <<logged_in, username, has_tickets, store, audit_log, now, created,
                   ai_calls, env, settings, levels>>

-----------------------------------------------------------------------------
(* Tickets tab: filters and sort over a copy of the collection *)

\* the score display_ticket_card and show_ticket_detail render, in tenths:
\* a dict is replaced by 0 before float()
CardScore(ticket) ==
    LET score == Get(ticket, "priority_score", Number(0))
    IN  IF score.kind = "object" THEN 0 ELSE score.val

DetailScore(ticket) ==
    LET score == Get(ticket, "priority_score", Number(0))
    IN  IF score.kind = "object" THEN 0 ELSE score.val

StatusFilters == {"All", "Draft", "AI Review", "Approved", "In Progress", "Completed", "Blocked"}
PriorityFilters == {"All", "Critical", "High", "Medium", "Low"}
SortKeys == {"Priority Score", "Created (Newest)", "Created (Oldest)", "Status"}

\* the filters, were the status filter left out
FilteredByPriorityOnly(tks, status_filter, priority_filter) ==
    SelectSeq(tks, LAMBDA t :
        priority_filter # "All" =>
            Get(t, "calculated_priority", Get(t, "priority", "None")) = priority_filter)

Filtered(tks, status_filter, priority_filter) ==
    SelectSeq(tks, LAMBDA t :
        /\ status_filter # "All" => t["status"] = status_filter
        /\ priority_filter # "All" =>
              Get(t, "calculated_priority", Get(t, "priority", "None")) = priority_filter)

\* list.sort compares the keys of the elements: ordering a dict against a
\* number or a dict raises TypeError
SortRaises(tks, sort_by) ==
    /\ sort_by = "Priority Score"
    /\ Len(tks) >= 2
    /\ \E i \in 1..Len(tks) : Get(tks[i], "priority_score", Number(0)).kind # "number"

\* the tab, were the sort by "Created (Oldest)" applied to the session's list
\* itself instead of a copy
ListSortingInPlace ==
    /\ logged_in
    /\ raised' \in {SortRaises(Filtered(tickets, status_filter, priority_filter), sort_by) :
                        status_filter \in StatusFilters, priority_filter \in PriorityFilters,
                        sort_by \in SortKeys}
    /\ tickets' = [i \in 1..Len(tickets) |-> tickets[Len(tickets) + 1 - i]]
    /\ message' = ""
    /\ met' = <<>>
    /\ UNCHANGED <<logged_in, username, has_tickets, store, audit_log, now,
                   created, ai_calls, env, settings, levels>>

\* the run of the tab under some choice of the three select boxes
ListTickets ==
    /\ logged_in
    /\ raised' \in {SortRaises(Filtered(tickets, status_filter, priority_filter), sort_by) :
                        status_filter \in StatusFilters, priority_filter \in PriorityFilters,
                        sort_by \in SortKeys}
    /\ message' = ""
    /\ met' = <<>>
    /\ UNCHANGED <<logged_in, username, has_tickets, tickets, store, audit_log, now,
                   created, ai_calls, env, settings, levels>>

-----------------------------------------------------------------------------

Next ==
    \/ Login
    \/ CreateTicket
    \/ Approve
    \/ Start
    \/ Complete
    \/ Delete
    \/ SyncJira
    \/ RefreshData
    \/ ListTickets

Spec == Init /\ [][Next]_vars

-----------------------------------------------------------------------------
(* The creation paths alone, on an empty collection, over every form, every *)
(* row and every answer of the advisory service.                            *)

InitCreate == InitIn(AllEnvs)

CreateFirst ==
    /\ created = 0
    /\ CreateTicketTab(AllForms, AllReplyPairs)

ImportFirst ==
    /\ created = 0
    /\ ImportCsvTab(CsvRows, SessionReplyPairs)

NextCreate ==
    \/ Login
    \/ CreateFirst
    \/ ImportFirst

SpecCreate == InitCreate /\ [][NextCreate]_vars

-----------------------------------------------------------------------------
(* Logout and the Settings tab *)

\* logout(): the three login keys are reset and the script reruns; every
\* other key of st.session_state stays as it is
Logout ==
    /\ logged_in
    /\ logged_in' = FALSE
    /\ username' = "None"
    /\ message' = ""
    /\ met' = <<>>
    /\ raised' = FALSE
    /\ UNCHANGED <<has_tickets, tickets, store, audit_log, now, created, ai_calls, env,
                   settings, levels>>

\* what the user may have typed in the fields of the Settings tab
KeyInputs == {"", "sk-or-user"}
JiraInputs == {<<"", "", "">>, <<"https://team.atlassian.net", "me@team.io", "tok-user">>}
EmailInputs == {<<"", "">>, <<"me@team.io", "app-pass">>}

\* Save OpenRouter Settings
SaveOpenRouterSettings ==
    \E openrouter_key_input \in KeyInputs :
        /\ logged_in
        /\ settings' = Put(settings, "openrouter_api_key", openrouter_key_input)
        /\ message' = "OpenRouter settings saved for this session!"
        /\ met' = <<>>
        /\ raised' = FALSE
        /\ UNCHANGED <<logged_in, username, has_tickets, tickets, store, audit_log, now,
                       created, ai_calls, env, levels>>

\* Save Jira Settings
SaveJiraSettings ==
    \E input \in JiraInputs :
        /\ logged_in
        /\ settings' = Put(Put(Put(settings, "jira_base_url", input[1]),
                               "jira_email", input[2]),
                           "jira_api_token", input[3])
        /\ message' = "Jira settings saved for this session!"
        /\ met' = <<>>
        /\ raised' = FALSE
        /\ UNCHANGED <<logged_in, username, has_tickets, tickets, store, audit_log, now,
                       created, ai_calls, env, levels>>

\* Save Email Settings
SaveEmailSettings ==
    \E input \in EmailInputs :
        /\ logged_in
        /\ settings' = Put(Put(settings, "email_address", input[1]),
                           "email_password", input[2])
        /\ message' = "Email settings saved for this session!"
        /\ met' = <<>>
        /\ raised' = FALSE
        /\ UNCHANGED <<logged_in, username, has_tickets, tickets, store, audit_log, now,
                       created, ai_calls, env, levels>>

\* one browser session in which users log in and out and save settings
NextSettings ==
    \/ Login
    \/ Logout
    \/ SaveOpenRouterSettings
    \/ SaveJiraSettings
    \/ SaveEmailSettings

SpecSettings == Init /\ [][NextSettings]_vars

\* one browser session in which users log in and out and work on tickets,
\* with no API key and no Jira in the environment
InitUsers == InitIn({Env("", "", "", "")})

NextUsers ==
    \/ Login
    \/ Logout
    \/ CreateTicket
    \/ Approve
    \/ Delete
    \/ RefreshData

SpecUsers == InitUsers /\ [][NextUsers]_vars

-----------------------------------------------------------------------------
(* create_ticket called by itself, over the ticket_data a caller may pass *)

\* keys a caller's ticket_data may carry next to the five the forms pass
ProvenanceKeys == {"id", "created_by", "created_at"}

PassedValue == [id |-> "deadbeef", created_by |-> "admin", created_at |-> 0]

TicketDatas ==
    {[k \in {"summary", "description", "server", "rack", "priority"} \cup extra |->
          CASE k = "summary" -> "disk fault"
            [] k = "description" -> "fan noise"
            [] k = "server" -> "srv-gpu-301"
            [] k = "rack" -> "3B-04"
            [] k = "priority" -> "Low"
            [] OTHER -> PassedValue[k]] : extra \in SUBSET ProvenanceKeys}

\* the session holds what the call returned, and nothing is saved
CallCreateTicket ==
    \E ticket_data \in TicketDatas, uuid \in Ids, replies \in Drawn(SessionReplyPairs) :
        /\ logged_in
        /\ created < MaxTickets
        /\ now < MaxClock
        /\ tickets' = <<create_ticket(username, ticket_data, uuid, now + 1,
                                      replies[1], replies[2])>>
        /\ now' = now + 1
        /\ created' = created + 1
        /\ ai_calls' = ai_calls + 2
        /\ met' = Requests(<<replies>>)
        /\ message' = ""
        /\ raised' = FALSE
        /\ UNCHANGED <<logged_in, username, has_tickets, store, audit_log, env, settings,
                       levels>>

NextCall ==
    \/ Login
    \/ CallCreateTicket

SpecCall == Init /\ [][NextCall]_vars

-----------------------------------------------------------------------------
(* The weight table alone: one factor is raised to a higher level, the other *)
(* three are held.                                                           *)

RaiseLevel ==
    \E f \in Factors : \E i, j \in 1..Len(LevelsOf[f]) :
        /\ levels[f] = LevelsOf[f][i]
        /\ i < j
        /\ levels' = [levels EXCEPT ![f] = LevelsOf[f][j]]
        /\ UNCHANGED <<logged_in, username, has_tickets, tickets, store, audit_log, now,
                       created, ai_calls, met, raised, message, env, settings>>

SpecWeights == Init /\ [][RaiseLevel]_vars

-----------------------------------------------------------------------------
(* Properties *)

\* positions i of tickets and j of tickets' that hold the same ticket
Same(i, j) == tickets[i]["obj"] = tickets'[j]["obj"]

\* the entries the step appends to a user's audit log
NewEntries(u) == SubSeq(audit_log'[u], Len(audit_log[u]) + 1, Len(audit_log'[u]))

\* the step logs `action` for ticket id `id`
Logged(action, id) ==
    \E u \in DOMAIN USERS : \E k \in 1..Len(NewEntries(u)) :
        NewEntries(u)[k].action = <<action, id>>

\* some entry of some log is `action` for ticket `id`
InLog(action, id) ==
    \E u \in DOMAIN USERS : \E k \in 1..Len(audit_log[u]) :
        audit_log[u][k].action = <<action, id>>

Edges ==
    {<<"Draft", "Approved">>, <<"AI Review", "Approved">>,
     <<"Approved", "In Progress">>, <<"In Progress", "Completed">>}

\* C1: every ticket create_ticket returns has status "AI Review" exactly when
\* its calculated_priority differs from its user_priority, and status "Draft"
\* otherwise, whatever the advisory requests met.
C1_ReviewIffPrioritiesDiffer ==
    \A i \in 1..Len(tickets) :
        /\ tickets[i]["status"] = "AI Review"
              <=> tickets[i]["calculated_priority"] # tickets[i]["user_priority"]
        /\ tickets[i]["calculated_priority"] = tickets[i]["user_priority"]
              => tickets[i]["status"] = "Draft"

\* a remote answer made the calculated priority differ and the ticket is in review
C1_Witness ==
    /\ met # <<>>
    /\ \E i \in 1..Len(tickets) :
        /\ tickets[i]["status"] = "AI Review"
        /\ tickets[i]["calculated_priority"] # tickets[i]["user_priority"]

\* C2 (as claimed): every ticket create_ticket returns carries the key
\* needs_priority_review, TRUE when the two priorities differ and FALSE when
\* they are equal.
C2_FlagAlwaysBoolean ==
    \A i \in 1..Len(tickets) :
        /\ "needs_priority_review" \in DOMAIN tickets[i]
        /\ tickets[i]["needs_priority_review"]
              = (tickets[i]["calculated_priority"] # tickets[i]["user_priority"])

\* C3: in every step, a ticket that stays in the collection keeps its status
\* or moves along one edge of Draft->Approved, AI Review->Approved,
\* Approved->In Progress, In Progress->Completed.
C3_StatusFollowsEdges ==
    [][\A i \in 1..Len(tickets) : \A j \in 1..Len(tickets') :
          Same(i, j) =>
              \/ tickets'[j]["status"] = tickets[i]["status"]
              \/ <<tickets[i]["status"], tickets'[j]["status"]>> \in Edges]_vars

\* a ticket created in AI Review was approved, started and completed
C3_Witness ==
    \E i \in 1..Len(tickets) :
        /\ tickets[i]["status"] = "Completed"
        /\ tickets[i]["calculated_priority"] # tickets[i]["user_priority"]
        /\ InLog("Approved ticket", tickets[i]["id"])
        /\ InLog("Started work on ticket", tickets[i]["id"])

\* C4: every executed Approve acts on a ticket whose status is Draft or
\* AI Review and leaves it Approved with needs_priority_review FALSE; it leaves
\* every other ticket as it was, so it never acts on a ticket that is Approved,
\* In Progress or Completed.
C4_ApproveFromDraftOrReview ==
    [][\A id \in Ids :
          Logged("Approved ticket", id) =>
              /\ Len(tickets') = Len(tickets)
              /\ \E i \in 1..Len(tickets) :
                    /\ tickets[i]["id"] = id
                    /\ tickets[i]["status"] \in {"Draft", "AI Review"}
                    /\ tickets'[i]["status"] = "Approved"
                    /\ "needs_priority_review" \in DOMAIN tickets'[i]
                    /\ tickets'[i]["needs_priority_review"] = FALSE
                    /\ \A j \in 1..Len(tickets) : j # i => tickets'[j] = tickets[j]]_vars

\* a ticket that needed review has been approved and its flag cleared
C4_Witness ==
    \E i \in 1..Len(tickets) :
        /\ tickets[i]["status"] = "Approved"
        /\ tickets[i]["calculated_priority"] # tickets[i]["user_priority"]
        /\ tickets[i]["needs_priority_review"] = FALSE
        /\ InLog("Approved ticket", tickets[i]["id"])

C6_StartedThenCompleted ==
    \A i \in 1..Len(tickets) :
        LET t == tickets[i] IN
        /\ "started_at" \in DOMAIN t <=> t["status"] \in {"In Progress", "Completed"}
        /\ "completed_at" \in DOMAIN t <=> t["status"] = "Completed"
        /\ "started_at" \in DOMAIN t
              => InLog("Started work on ticket", t["id"])
        /\ "completed_at" \in DOMAIN t
              => /\ InLog("Completed ticket", t["id"])
                 /\ t["completed_at"] > t["started_at"]

\* a ticket went through Approve, Start and Complete and carries both times
C6_Witness ==
    \E i \in 1..Len(tickets) :
        /\ tickets[i]["status"] = "Completed"
        /\ "started_at" \in DOMAIN tickets[i]
        /\ "completed_at" \in DOMAIN tickets[i]
        /\ tickets[i]["completed_at"] > tickets[i]["started_at"]

Unreachable(reply) == reply.kind \in {"network_error", "http_error"}

\* C8 (as claimed): when every advisory request of a creation fails, the
\* ticket has priority_score 5.0, calculated_priority equal to user_priority,
\* validation.completeness_score 0.7 and validation.is_complete true.
C8_UnreachableGivesDefaults ==
    (met # <<>> /\ \A k \in 1..Len(met) : Unreachable(met[k])) =>
        \A i \in 1..Len(tickets) :
            /\ tickets[i]["priority_score"] = Number(50)
            /\ tickets[i]["calculated_priority"] = tickets[i]["user_priority"]
            /\ "completeness_score" \in DOMAIN tickets[i]["validation"]
            /\ tickets[i]["validation"]["completeness_score"] = Number(70)
            /\ "is_complete" \in DOMAIN tickets[i]["validation"]
            /\ tickets[i]["validation"]["is_complete"] = TRUE

\* the failures C9 lists: network error, non-200 answer, text without "{",
\* text with "{" but no "}", text whose braces hold no parsable object
Failure(reply) ==
    \/ Unreachable(reply)
    \/ /\ reply.kind = "ok"
       /\ reply.content # <<>>
       /\ \/ Find(reply.content, "{") = -1
          \/ RFind(reply.content, "}") = -1
          \/ ~json_loads(Slice(reply.content, Find(reply.content, "{"),
                               RFind(reply.content, "}") + 1)).ok

\* C9 (as claimed): no creation raises, and a judgement whose request failed
\* is the default judgement.  The k-th ticket created by the handler is at
\* position Len(tickets) - k + 1, its requests are met[2k-1] and met[2k].
C9_FailuresGiveDefaultJudgement ==
    /\ ~raised
    /\ met # <<>> =>
         \A k \in 1..Len(tickets) :
             LET t == tickets[Len(tickets) - k + 1] IN
             /\ Failure(met[2 * k - 1]) => t["validation"] = DefaultValidation
             /\ Failure(met[2 * k]) => t["priority_analysis"] = DefaultPriority(t)

\* C10 (as claimed): no ticket of the collection has an empty summary,
\* description, server or rack, and a rejected submission called the advisory
\* client not at all and added no ticket.
C10_EmptyFieldsRejected ==
    /\ \A i \in 1..Len(tickets) :
          \A key \in {"summary", "description", "server", "rack"} : tickets[i][key] # ""
    /\ message = "Please fill in all required fields" => ai_calls = 0 /\ tickets = <<>>

-----------------------------------------------------------------------------
(* Audit entries and saves of the card buttons *)

\* the step appends one entry, `action` on ticket `id`, to the acting user's
\* log and nothing to the other logs, and leaves the acting user's store equal
\* to the in-session collection and the other stores as they were
OneEntryAndSave(action, id) ==
    /\ Len(NewEntries(username)) = 1
    /\ NewEntries(username)[1].action = <<action, id>>
    /\ \A u \in DOMAIN USERS \ {username} :
          audit_log'[u] = audit_log[u] /\ store'[u] = store[u]
    /\ store'[username] = tickets'

\* the audit text of the button that moves a ticket to `status`
ActionOf(status) ==
    CASE status = "Approved" -> "Approved ticket"
      [] status = "In Progress" -> "Started work on ticket"
      [] status = "Completed" -> "Completed ticket"
      [] OTHER -> "none"

\* the statuses from which the button with audit text `action` is rendered
ValidFrom(action) ==
    CASE action = "Approved ticket" -> {"Draft", "AI Review"}
      [] action = "Started work on ticket" -> {"Approved"}
      [] action = "Completed ticket" -> {"In Progress"}
      [] OTHER -> {"Draft", "AI Review", "Approved", "In Progress", "Completed"}

\* position i of tickets holds a ticket the step removes
Removed(i) == \A j \in 1..Len(tickets') : ~Same(i, j)

\* C11: a step that changes a ticket's status (Approve, Start, Complete) or
\* removes a ticket (Delete) appends exactly one audit entry, naming the action
\* and the ticket id, to the acting user's log and leaves that user's store
\* equal to the whole in-session collection; and an entry of one of the four
\* actions is appended only when a ticket of that id was in a status the
\* action is valid from.
C11_OneEntryAndSavePerAction ==
    [][/\ \A i \in 1..Len(tickets) : \A j \in 1..Len(tickets') :
            (Same(i, j) /\ tickets'[j]["status"] # tickets[i]["status"])
                => OneEntryAndSave(ActionOf(tickets'[j]["status"]), tickets[i]["id"])
       /\ \A i \in 1..Len(tickets) :
            Removed(i) => OneEntryAndSave("Deleted ticket", tickets[i]["id"])
       /\ \A id \in Ids :
            \A action \in {"Approved ticket", "Started work on ticket",
                            "Completed ticket", "Deleted ticket"} :
                Logged(action, id) =>
                    \E i \in 1..Len(tickets) :
                        /\ tickets[i]["id"] = id
                        /\ tickets[i]["status"] \in ValidFrom(action)
                        /\ action = "Deleted ticket" => Removed(i)
                        /\ action # "Deleted ticket" =>
                              \E j \in 1..Len(tickets') :
                                  Same(i, j) /\ ActionOf(tickets'[j]["status"]) = action]_vars

\* one of two tickets was deleted and the other approved: both are in the
\* acting user's log and the store holds the one ticket left
C11_Witness ==
    /\ Len(tickets) = 1
    /\ tickets[1]["status"] = "Approved"
    /\ store[username] = tickets
    /\ InLog("Approved ticket", tickets[1]["id"])
    /\ \E id \in Ids : InLog("Deleted ticket", id)

-----------------------------------------------------------------------------
(* Jira sync *)

\* C12: wherever sync_ticket_to_jira is called with Jira not configured or
\* with create_jira_issue returning None, it returns False and leaves the
\* collection, the store and the audit logs as they were; and a step of the
\* Sync Jira button that fails changes no ticket, no store and no log, and
\* leaves a ticket without jira_key and jira_synced_at on which the button is
\* still rendered.
C12_FailedSyncChangesNothing ==
    [][/\ \A i \in 1..Len(tickets) : \A jira_key \in JiraResults :
            (~get_jira_config.is_configured \/ jira_key = "") =>
                LET w == sync_ticket_to_jira(World(tickets, store, audit_log), i,
                                             username, now + 1, jira_key)
                IN  /\ ~w.ok
                    /\ w.tickets = tickets
                    /\ w.store = store
                    /\ w.audit_log = audit_log
       /\ message' = "Jira API Error" =>
            /\ tickets' = tickets
            /\ store' = store
            /\ audit_log' = audit_log
            /\ get_jira_config.is_configured
            /\ \E i \in 1..Len(tickets') :
                  /\ "jira_key" \notin DOMAIN tickets'[i]
                  /\ "jira_synced_at" \notin DOMAIN tickets'[i]]_vars

\* a sync failed on one ticket while the other ticket of the collection is
\* synced
C12_Witness ==
    /\ message = "Jira API Error"
    /\ Len(tickets) = 2
    /\ \E i, j \in 1..2 :
          /\ "jira_key" \in DOMAIN tickets[i]
          /\ "jira_key" \notin DOMAIN tickets[j]
          /\ store[username] = tickets

\* collection `after` is collection `before` but for the keys jira_key and
\* jira_synced_at of the ticket at position i
SyncFrame(before, after, i) ==
    /\ Len(after) = Len(before)
    /\ \A j \in 1..Len(before) : j # i => after[j] = before[j]
    /\ DOMAIN after[i] \subseteq DOMAIN before[i] \cup {"jira_key", "jira_synced_at"}
    /\ \A key \in DOMAIN before[i] \ {"jira_key", "jira_synced_at"} :
          key \in DOMAIN after[i] /\ after[i][key] = before[i][key]

\* C13: in every reachable state, on every ticket (whatever its status) and
\* for every outcome of create_jira_issue, sync_ticket_to_jira changes nothing
\* but jira_key and jira_synced_at of that ticket; and every step of the Sync
\* Jira button, successful or not, changes nothing else either.
C13_SyncTouchesOnlyJiraFields ==
    [][/\ \A i \in 1..Len(tickets) : \A jira_key \in JiraResults :
            SyncFrame(tickets,
                      sync_ticket_to_jira(World(tickets, store, audit_log), i,
                                          username, now + 1, jira_key).tickets, i)
       /\ message' \in {"Synced", "Jira API Error"} =>
            \E i \in 1..Len(tickets) : SyncFrame(tickets, tickets', i)]_vars

\* a ticket in progress has just been synced and is still in progress
C13_Witness ==
    /\ message = "Synced"
    /\ \E i \in 1..Len(tickets) :
          /\ tickets[i]["status"] = "In Progress"
          /\ "jira_key" \in DOMAIN tickets[i]
          /\ tickets[i]["jira_synced_at"] > tickets[i]["started_at"]

\* C14: once a ticket has jira_key (jira_synced_at), every step that keeps
\* the ticket keeps the key and its value; and a successful step of the Sync
\* Jira button acts on a ticket that had no jira_key.
C14_JiraFieldsWrittenOnce ==
    [][/\ \A i \in 1..Len(tickets) : \A j \in 1..Len(tickets') :
            Same(i, j) =>
                \A key \in {"jira_key", "jira_synced_at"} :
                    key \in DOMAIN tickets[i]
                        => key \in DOMAIN tickets'[j] /\ tickets'[j][key] = tickets[i][key]
       /\ message' = "Synced" =>
            \E i \in 1..Len(tickets) :
                /\ "jira_key" \notin DOMAIN tickets[i]
                /\ "jira_key" \in DOMAIN tickets'[i]
                /\ SyncFrame(tickets, tickets', i)]_vars

\* a ticket was synced and then started: it still has the key and time of
\* the sync
C14_Witness ==
    \E i \in 1..Len(tickets) :
        /\ "jira_key" \in DOMAIN tickets[i]
        /\ "started_at" \in DOMAIN tickets[i]
        /\ tickets[i]["jira_synced_at"] < tickets[i]["started_at"]

-----------------------------------------------------------------------------
(* Delete and ticket ids *)

\* the ids of the tickets of a collection
IdsOf(tks) == {tks[i]["id"] : i \in 1..Len(tks)}

\* C15 (as claimed): an id whose Delete is in the audit log is the id of no
\* ticket of the in-session collection and of no ticket of the store, in every
\* later state of the session.
C15_DeletedIdNeverListed ==
    \A id \in Ids :
        InLog("Deleted ticket", id) =>
            /\ id \notin IdsOf(tickets)
            /\ \A u \in DOMAIN USERS : id \notin IdsOf(store[u])

\* C16 (as claimed): no two tickets of the in-session collection, and no two
\* tickets of a user's stored collection, have the same id.
C16_IdsUnique ==
    /\ \A i, j \in 1..Len(tickets) : tickets[i]["id"] = tickets[j]["id"] => i = j
    /\ \A u \in DOMAIN USERS : \A i, j \in 1..Len(store[u]) :
          store[u][i]["id"] = store[u][j]["id"] => i = j

-----------------------------------------------------------------------------
(* priority_score *)

\* C17 (as claimed): the priority_score of every ticket of the in-session
\* collection and of the store is a number.
C17_ScoreIsScalar ==
    /\ \A i \in 1..Len(tickets) : tickets[i]["priority_score"].kind = "number"
    /\ \A u \in DOMAIN USERS : \A i \in 1..Len(store[u]) :
          store[u][i]["priority_score"].kind = "number"

\* C18 (as claimed): no run of the tickets tab raises, under any filter and
\* sort key, and a ticket whose priority_score is not a number is rendered
\* with score 0 by the card and by the detail view.
C18_NonScalarScoreShownAsZero ==
    /\ ~raised
    /\ \A i \in 1..Len(tickets) :
          tickets[i]["priority_score"].kind # "number" =>
              CardScore(tickets[i]) = 0 /\ DetailScore(tickets[i]) = 0

-----------------------------------------------------------------------------
(* needs_priority_review *)

\* ticket.get("needs_priority_review") is true
Flagged(ticket) == Get(ticket, "needs_priority_review", FALSE) = TRUE

\* position j of tickets' holds a ticket the step adds
Added(j) == \A i \in 1..Len(tickets) : ~Same(i, j)

\* C19: a ticket enters the collection flagged only with status AI Review, a
\* ticket that is not flagged never becomes flagged, and a flagged ticket that
\* stays in the collection loses the flag only in a step that is the Approve
\* of that ticket.
C19_FlagFromReviewClearedByApprove ==
    [][/\ \A j \in 1..Len(tickets') :
            (Added(j) /\ Flagged(tickets'[j])) => tickets'[j]["status"] = "AI Review"
       /\ \A i \in 1..Len(tickets) : \A j \in 1..Len(tickets') :
            Same(i, j) =>
                /\ ~Flagged(tickets[i]) => ~Flagged(tickets'[j])
                /\ (Flagged(tickets[i]) /\ ~Flagged(tickets'[j])) =>
                      /\ Logged("Approved ticket", tickets[i]["id"])
                      /\ tickets[i]["status"] = "AI Review"
                      /\ tickets'[j]["status"] = "Approved"]_vars

\* one ticket created in review was approved and started, and the other is
\* still flagged and in review
C19_Witness ==
    \E i, j \in 1..Len(tickets) :
        /\ Flagged(tickets[i])
        /\ tickets[i]["status"] = "AI Review"
        /\ tickets[j]["status"] = "In Progress"
        /\ tickets[j]["calculated_priority"] # tickets[j]["user_priority"]
        /\ ~Flagged(tickets[j])

-----------------------------------------------------------------------------
(* Order of the two judgements *)

AnalysisKeys == {"validation", "priority_analysis", "calculated_priority", "priority_score"}

\* C20: every ticket of the in-session collection and of the store has
\* validation, priority_analysis, calculated_priority and priority_score; the
\* advisory client was called twice per created ticket; and of the two
\* requests of a creation the first is the one whose answer became the
\* ticket's validation and the second the one whose answer became its
\* priority_analysis.  The k-th ticket created by the handler is at position
\* Len(tickets) - k + 1, its requests are met[2k-1] and met[2k].
C20_BothJudgementsBeforeListing ==
    /\ \A i \in 1..Len(tickets) : AnalysisKeys \subseteq DOMAIN tickets[i]
    /\ \A u \in DOMAIN USERS : \A i \in 1..Len(store[u]) :
          AnalysisKeys \subseteq DOMAIN store[u][i]
    /\ ai_calls = 2 * created
    /\ Len(tickets) = created
    /\ met # <<>> =>
          /\ Len(met) = 2 * Len(tickets)
          /\ \A k \in 1..Len(tickets) :
                LET t == tickets[Len(tickets) - k + 1] IN
                /\ t["validation"] = validate_and_enhance_ticket(t, met[2 * k - 1])
                /\ t["priority_analysis"] = calculate_priority_score(t, met[2 * k])

\* two rows were imported in remote mode: four requests were made and both
\* tickets are listed and stored with their two judgements
C20_Witness ==
    /\ Len(met) = 4
    /\ Len(tickets) = 2
    /\ store[username] = tickets
    /\ tickets[1]["validation"] = RemoteValidation
    /\ tickets[1]["priority_analysis"] = RemoteNested
    /\ tickets[2]["validation"] = EmptyDict

-----------------------------------------------------------------------------
(* Priority model *)

\* C21: from every combination of one level per factor, raising one factor
\* to a higher level with the other three held does not lower the score,
\* taken as the sum of the four weights and taken as their maximum.
C21_ScoreMonotoneInEachFactor ==
    [][/\ SumScore(levels') >= SumScore(levels)
       /\ MaxScore(levels') >= MaxScore(levels)]_vars

\* impact scope was raised past rack and row to datacenter while urgency was
\* raised one level and the other two factors stayed at their lowest
C21_Witness ==
    /\ levels["impact_scope"] = "datacenter"
    /\ levels["urgency"] = "next_maintenance"
    /\ levels["service_impact"] = "none"
    /\ levels["safety"] = "none"
    /\ SumScore(levels) = 12

-----------------------------------------------------------------------------
(* Sessions of several users *)

\* C22: whoever is logged in, the in-session collection is the collection
\* of that user's store, and no user's store holds a ticket created by
\* another user.
C22_CollectionsPerUser ==
    /\ logged_in => tickets = store[username]
    /\ \A u \in DOMAIN USERS : \A i \in 1..Len(store[u]) : store[u][i]["created_by"] = u

-----------------------------------------------------------------------------
(* Audit log *)

\* C23: in every step each user's audit log keeps its earlier entries as a
\* prefix, and the timestamps of the entries of a log never decrease.
C23_AuditLogAppendOnly ==
    [][\A u \in DOMAIN USERS :
          /\ Len(audit_log'[u]) >= Len(audit_log[u])
          /\ SubSeq(audit_log'[u], 1, Len(audit_log[u])) = audit_log[u]
          /\ \A i \in 2..Len(audit_log'[u]) :
                audit_log'[u][i - 1].timestamp <= audit_log'[u][i].timestamp]_vars

\* three handlers have logged, one after the other, to the same log
C23_Witness ==
    \E u \in DOMAIN USERS :
        /\ Len(audit_log[u]) >= 3
        /\ audit_log[u][1].action[1] = "Created ticket"
        /\ audit_log[u][2].action[1] = "Approved ticket"
        /\ audit_log[u][3].action[1] = "Deleted ticket"
        /\ audit_log[u][1].timestamp < audit_log[u][3].timestamp

-----------------------------------------------------------------------------
(* Provenance *)

\* C24: the ticket create_ticket returns carries a freshly generated id, the
\* username passed and the clock reading of the call, whatever keys the
\* ticket_data of the call contains.
C24_ProvenanceSetByCreate ==
    \A i \in 1..Len(tickets) :
        /\ tickets[i]["id"] \in Ids
        /\ tickets[i]["created_by"] = username
        /\ tickets[i]["created_at"] = now

-----------------------------------------------------------------------------
(* Local stand-in *)

\* C25: with no API key, every created ticket carries the canned priority
\* template as its priority judgement and the canned completeness template
\* as its completeness judgement.
C25_MockGivesCannedTemplates ==
    get_openrouter_config.use_mock =>
        \A i \in 1..Len(tickets) :
            /\ tickets[i]["priority_analysis"] = MockPriority
            /\ tickets[i]["validation"] = MockValidation

-----------------------------------------------------------------------------
(* Session settings *)

\* the three getters return what the environment alone gives
EnvironmentDefaults ==
    /\ get_openrouter_config.api_key = Strip(env.OPENROUTER_KEY)
    /\ get_jira_config.jira_base = Strip(env.JIRA_BASE_URL)
    /\ get_jira_config.jira_email = Strip(env.JIRA_EMAIL)
    /\ get_jira_config.jira_token = Strip(env.JIRA_API_TOKEN)
    /\ get_email_config.email_addr = Strip(EMAIL_ADDRESS)
    /\ get_email_config.email_pass = Strip(EMAIL_PASSWORD)

\* C26: whenever a login succeeds, whatever was saved and whoever logged
\* out before it, the three getters return the environment defaults.
C26_SettingsResetOnLogout ==
    [][(~logged_in /\ logged_in') => EnvironmentDefaults']_vars

-----------------------------------------------------------------------------
(* Role permissions *)

\* the permission of USERS a logged lifecycle action asks for
PermissionFor(action) ==
    CASE action = "Approved ticket" -> "approve"
      [] action = "Started work on ticket" -> "start"
      [] action = "Completed ticket" -> "complete"

\* C27: every Approve, Start and Complete in a user's audit log was
\* executed by a user whose permissions contain the action's permission
\* or "all".
C27_LifecycleRespectsPermissions ==
    \A u \in DOMAIN USERS : \A i \in 1..Len(audit_log[u]) :
        LET action == audit_log[u][i].action[1]
        IN  action \in {"Approved ticket", "Started work on ticket", "Completed ticket"} =>
                \/ PermissionFor(action) \in USERS[u].permissions
                \/ "all" \in USERS[u].permissions

-----------------------------------------------------------------------------
(* Review flag and status *)

\* C28: in the session and in every store, a ticket's needs_priority_review
\* is true exactly when its status is "AI Review".
C28_FlaggedIffInReview ==
    /\ \A i \in 1..Len(tickets) : Flagged(tickets[i]) <=> tickets[i]["status"] = "AI Review"
    /\ \A u \in DOMAIN USERS : \A i \in 1..Len(store[u]) :
          Flagged(store[u][i]) <=> store[u][i]["status"] = "AI Review"

\* a ticket waiting in AI Review with the flag set, next to one that was
\* flagged at creation and whose flag Approve has cleared
C28_Witness ==
    \E i, j \in 1..Len(tickets) :
        /\ tickets[i]["status"] = "AI Review"
        /\ Flagged(tickets[i])
        /\ tickets[j]["status"] = "Approved"
        /\ "needs_priority_review" \in DOMAIN tickets[j]
        /\ ~Flagged(tickets[j])

-----------------------------------------------------------------------------
(* The Blocked status *)

\* C29: no ticket of the session or of a store has status "Blocked", and
\* the Blocked filter lists no ticket under any priority filter.
C29_BlockedUnreachable ==
    /\ \A i \in 1..Len(tickets) : tickets[i]["status"] # "Blocked"
    /\ \A u \in DOMAIN USERS : \A i \in 1..Len(store[u]) : store[u][i]["status"] # "Blocked"
    /\ \A priority_filter \in PriorityFilters :
          Filtered(tickets, "Blocked", priority_filter) = <<>>

\* two tickets are listed, one in progress and one waiting for review, and
\* the filter on their own statuses finds them
C29_Witness ==
    /\ Len(tickets) = 2
    /\ Len(Filtered(tickets, "In Progress", "All")) = 1
    /\ Len(Filtered(tickets, "AI Review", "All")) = 1

-----------------------------------------------------------------------------
(* Session and store *)

\* C30: while a user is logged in, a step that writes to an audit log (a
\* completed create, import, approve, start, complete, delete or sync)
\* leaves the user's store equal to the in-session collection, with the
\* tickets it adds in front of the others; a step that writes to no audit
\* log (listing under any filter and sort, a rejected form, a failed sync,
\* a refresh) changes neither the in-session collection nor any store.
C30_StoreFollowsSession ==
    [][(logged_in /\ logged_in') =>
          /\ audit_log' # audit_log => store'[username] = tickets'
          /\ \A j \in 1..Len(tickets') : Added(j) => \A k \in 1..(j - 1) : Added(k)
          /\ audit_log' = audit_log => (tickets' = tickets /\ store' = store)]_vars

\* two tickets created one after the other, the newer in front, the older
\* approved since, and the store holding the same list
C30_Witness ==
    /\ logged_in
    /\ Len(tickets) = 2
    /\ tickets[1]["created_at"] > tickets[2]["created_at"]
    /\ tickets[2]["status"] = "Approved"
    /\ store[username] = tickets
    /\ Len(audit_log[username]) >= 3

====
